---- MODULE Spec2Model ----
(***************************************************************************)
(* Request Metrics Recorder of the booking service                         *)
(* (services/booking-service/src/middleware/metrics.js).                   *)
(*                                                                         *)
(* Strings that the code transforms (routes, status labels) are sequences  *)
(* of one-character strings, so that the regular-expression replacement    *)
(* and the number-to-string conversion are computed, not assumed.          *)
(* JavaScript values that may be undefined or a non-string object are      *)
(* records [t, v]: t is the type tag, v the characters of a string.        *)
(***************************************************************************)
EXTENDS Integers, Sequences, FiniteSets, TLC

\* ---------------------------------------------------------------- bounds
MaxRequests == 2        \* requests the host receives in one run
MaxClock == 1           \* readings of process.hrtime above zero
MaxSegments == 2        \* segments of a route handed to the normalisation

\* ------------------------------------------------------ program constants
IdLen == 24             \* {24} in the pattern of line 47

HexChars ==
  {"0","1","2","3","4","5","6","7","8","9",
   "a","b","c","d","e","f","A","B","C","D","E","F"}

Placeholder == <<"/", ":", "i", "d">>

Unknown == <<"u","n","k","n","o","w","n">>

DefaultStatus == 200    \* statusCode of a fresh http.ServerResponse

StatusCodes == {200, 404, 500}

\* ------------------------------------------------------- JavaScript values
Undefined == [t |-> "undefined", v |-> <<>>]

Str(s) == [t |-> "string", v |-> s]

RegExpObject == [t |-> "regexp", v |-> <<>>]

\* ToBoolean of the operands of || on line 46
Truthy(x) ==
  CASE x.t = "undefined" -> FALSE
    [] x.t = "string" -> x.v # <<>>
    [] OTHER -> TRUE

\* a || b
OrElse(a, b) == IF Truthy(a) THEN a ELSE b

\* ------------------------------------------------------------ the inputs
Bookings == <<"/","b","o","o","k","i","n","g","s">>

ObjectId1 ==
  <<"5","0","7","f","1","f","7","7","b","c","f","8",
    "6","c","d","7","9","9","4","3","9","0","1","1">>

ObjectId3 ==
  <<"A","B","C","D","E","F","0","1","2","3","4","5",
    "6","7","8","9","A","B","C","D","E","F","0","1">>

ObjectId2 ==
  <<"5","0","7","F","1","F","7","7","B","c","f","8",
    "6","C","D","7","9","9","4","3","9","0","1","2">>

BookingsPattern == Bookings \o <<"/", ":", "i", "d">>

MetricsPath == <<"/","m","e","t","r","i","c","s">>

\* What the host hands to the recorder: the request method, req.path, the
\* path of the route the router resolves for it (undefined when no route is
\* reached) and the handler that answers.
Targets ==
  << [method |-> "GET", path |-> Str(Bookings \o <<"/">> \o ObjectId1),
      routePath |-> Undefined, handler |-> "app"],
     [method |-> "GET", path |-> Str(Bookings \o <<"/">> \o ObjectId1),
      routePath |-> Str(BookingsPattern), handler |-> "app"],
     [method |-> "GET", path |-> Str(Bookings \o <<"/">> \o ObjectId2),
      routePath |-> Undefined, handler |-> "app"],
     [method |-> "GET", path |-> Str(Bookings \o <<"/">> \o ObjectId1 \o <<"a">>),
      routePath |-> Undefined, handler |-> "app"],
     [method |-> "GET", path |-> Str(Bookings \o <<"/", "4", "2">>),
      routePath |-> Undefined, handler |-> "app"],
     [method |-> "GET", path |-> Str(<<"/">>),
      routePath |-> Str(<<>>), handler |-> "app"],
     [method |-> "POST", path |-> Str(<<"/","e","v","e","n","t","s">>),
      routePath |-> RegExpObject, handler |-> "app"],
     [method |-> "GET", path |-> Undefined,
      routePath |-> Undefined, handler |-> "app"],
     [method |-> "GET", path |-> Str(MetricsPath),
      routePath |-> Str(MetricsPath), handler |-> "metrics"] >>

TargetIds == 1..Len(Targets)

Requests == 1..MaxRequests

\* ------------------------------------------------------- pure functions
\* /\/[a-f0-9]{24}/i matches at position i of s
MatchAt(s, i) ==
  /\ s[i] = "/"
  /\ i + IdLen <= Len(s)
  /\ \A k \in 1..IdLen : s[i + k] \in HexChars

RECURSIVE ReplaceFirstOnly(_, _)
\* a replacement without the global flag: the first match only
ReplaceFirstOnly(s, i) ==
  IF i > Len(s) THEN <<>>
  ELSE IF MatchAt(s, i)
       THEN Placeholder \o SubSeq(s, i + IdLen + 1, Len(s))
       ELSE <<s[i]>> \o ReplaceFirstOnly(s, i + 1)

RECURSIVE ReplaceFrom(_, _)
\* String.prototype.replace with a global pattern: leftmost matches,
\* scanned left to right, each replaced by '/:id'
ReplaceFrom(s, i) ==
  IF i > Len(s) THEN <<>>
  ELSE IF MatchAt(s, i) THEN Placeholder \o ReplaceFrom(s, i + IdLen + 1)
  ELSE <<s[i]>> \o ReplaceFrom(s, i + 1)

NormalizeRoute(s) == ReplaceFrom(s, 1)

Digit(d) == CASE d = 0 -> "0" [] d = 1 -> "1" [] d = 2 -> "2" [] d = 3 -> "3"
              [] d = 4 -> "4" [] d = 5 -> "5" [] d = 6 -> "6" [] d = 7 -> "7"
              [] d = 8 -> "8" [] d = 9 -> "9"

RECURSIVE NumberToString(_)
\* Number.prototype.toString of a non-negative integer
NumberToString(n) ==
  IF n < 10 THEN <<Digit(n)>>
  ELSE NumberToString(n \div 10) \o <<Digit(n % 10)>>

\* req.route?.path || req.path || 'unknown'
SelectRoute(routePath, path) == OrElse(OrElse(routePath, path), Str(Unknown))

\* route.replace exists only on strings
ReplaceThrows(route) == route.t # "string"

\* the label set built from the route as selected, not as normalised
LabelsUnnormalized(method, route, statusCode) ==
  [method |-> method,
   route |-> route.v,
   status |-> NumberToString(statusCode)]

\* the label set with the status the response had when the request began
LabelsWithInitialStatus(method, route, statusCode) ==
  [method |-> method,
   route |-> NormalizeRoute(route.v),
   status |-> NumberToString(DefaultStatus)]

Labels(method, route, statusCode) ==
  [method |-> method,
   route |-> NormalizeRoute(route.v),
   status |-> NumberToString(statusCode)]

\* an increment that replaces the table by the one entry it touches
CounterIncForgetsOthers(c, l) ==
  (l :> (IF l \in DOMAIN c THEN c[l] + 1 ELSE 1))

\* the completion time alone, the start time not subtracted
DurationSinceProcessStart(end, startTime) == end

\* the time from start to end, in the unit of the clock; the code divides
\* the nanoseconds of hrtime by 1e9, a change of unit only
DurationInSeconds(end, startTime) == end - startTime

\* Counter.inc(labels): the entry of the label set, created at 0, plus one
CounterInc(c, l) ==
  IF l \in DOMAIN c THEN [c EXCEPT ![l] = @ + 1] ELSE c @@ (l :> 1)

\* an observation that starts the count of its label set again
HistogramObserveResetsCount(h, l, value) ==
  IF l \in DOMAIN h
  THEN [h EXCEPT ![l] = [count |-> 1, sum |-> @.sum + value]]
  ELSE h @@ (l :> [count |-> 1, sum |-> value])

\* an observation that is added to every label set of the histogram
HistogramObserveEveryLabel(h, l, value) ==
  [x \in DOMAIN h \cup {l} |->
     IF x \in DOMAIN h
     THEN [count |-> h[x].count + 1, sum |-> h[x].sum + value]
     ELSE [count |-> 1, sum |-> value]]

\* Histogram.observe(labels, value): count and sum of the label set
HistogramObserve(h, l, value) ==
  IF l \in DOMAIN h
  THEN [h EXCEPT ![l] = [count |-> @.count + 1, sum |-> @.sum + value]]
  ELSE h @@ (l :> [count |-> 1, sum |-> value])

EmptyMap == [l \in {} |-> 0]

NoBody ==
  [kind |-> "none", counter |-> EmptyMap, histogram |-> EmptyMap,
   series |-> {}]

AppBody ==
  [kind |-> "payload", counter |-> EmptyMap, histogram |-> EmptyMap,
   series |-> {}]

\* register.setDefaultLabels({ service: 'booking-service' })
DefaultLabels == [service |-> "booking-service"]

\* the labels of an exported series: its own labels and the default labels
WithDefaultLabels(l) ==
  [method |-> l.method, route |-> l.route, status |-> l.status,
   service |-> DefaultLabels.service]

\* the series of the instruments that collectDefaultMetrics registers,
\* stood for by the start time of the process
DefaultMetricsSeries ==
  {[name |-> "process_start_time_seconds", labels |-> DefaultLabels,
    value |-> 0]}

\* the series of http_requests_total
CounterSeries(c) ==
  {[name |-> "http_requests_total", labels |-> WithDefaultLabels(l),
    value |-> c[l]] : l \in DOMAIN c}

\* the series of http_request_duration_seconds (count and sum)
HistogramSeries(h) ==
  {[name |-> "http_request_duration_seconds_count",
    labels |-> WithDefaultLabels(l), value |-> h[l].count] : l \in DOMAIN h}
  \cup
  {[name |-> "http_request_duration_seconds_sum",
    labels |-> WithDefaultLabels(l), value |-> h[l].sum] : l \in DOMAIN h}

\* a rendering that does not merge the default labels into the series of
\* the two instruments
RegisterMetricsWithoutDefaults(c, h) ==
  [kind |-> "metrics", counter |-> c, histogram |-> h,
   series |->
     DefaultMetricsSeries
     \cup {[name |-> "http_request_duration_seconds_count", labels |-> l,
            value |-> h[l].count] : l \in DOMAIN h}
     \cup {[name |-> "http_request_duration_seconds_sum", labels |-> l,
            value |-> h[l].sum] : l \in DOMAIN h}
     \cup {[name |-> "http_requests_total", labels |-> l,
            value |-> c[l]] : l \in DOMAIN c}]

\* register.metrics(): the current state of the registered instruments,
\* as the values read and as the series of the exposition
RegisterMetrics(c, h) ==
  [kind |-> "metrics", counter |-> c, histogram |-> h,
   series |-> DefaultMetricsSeries \cup HistogramSeries(h)
                \cup CounterSeries(c)]

RegisterContentType == "text/plain; version=0.0.4; charset=utf-8"

\* ------------------------------------------------------------ the state
VARIABLES
  pc,              \* position of each request in its life cycle
  target,          \* the input of each request (index in Targets), 0 before
  reqRoute,        \* req.route?.path as the router has set it so far
  start,           \* the start time captured by the middleware
  listeners,       \* 'finish' listeners attached to the response
  nextCalls,       \* calls of next made for the request
  callbackRuns,    \* runs of the completion callback
  statusCode,      \* res.statusCode
  contentType,     \* the Content-Type header of the response
  body,            \* the body handed to res.end
  httpRequestDuration,   \* label set -> [count, sum]
  httpRequestsTotal,     \* label set -> value
  clock,           \* process.hrtime.bigint()
  uncaught,        \* requests whose completion callback threw
  alive,           \* the process is running
  routeIn,         \* a route string handed to the normalisation on its own
  routeOut         \* the label the normalisation returned for routeIn

vars == <<pc, target, reqRoute, start, listeners, nextCalls, callbackRuns,
          statusCode, contentType, body, httpRequestDuration,
          httpRequestsTotal, clock, uncaught, alive, routeIn, routeOut>>

recorderVars ==
  <<pc, target, reqRoute, start, listeners, nextCalls, callbackRuns,
    statusCode, contentType, body, httpRequestDuration, httpRequestsTotal,
    clock, uncaught, alive>>

\* the recorder after the module is loaded: empty instruments, no request
RecorderInit ==
  /\ pc = [r \in Requests |-> "new"]
  /\ target = [r \in Requests |-> 0]
  /\ reqRoute = [r \in Requests |-> Undefined]
  /\ start = [r \in Requests |-> 0]
  /\ listeners = [r \in Requests |-> 0]
  /\ nextCalls = [r \in Requests |-> 0]
  /\ callbackRuns = [r \in Requests |-> 0]
  /\ statusCode = [r \in Requests |-> DefaultStatus]
  /\ contentType = [r \in Requests |-> "none"]
  /\ body = [r \in Requests |-> NoBody]
  /\ httpRequestDuration = EmptyMap
  /\ httpRequestsTotal = EmptyMap
  /\ clock = 0
  /\ uncaught = {}
  /\ alive = TRUE

Init ==
  /\ RecorderInit
  /\ routeIn = <<>>
  /\ routeOut = Undefined

\* ----------------------------------------------------------- the actions
\* a middleware that attaches the callback and never calls next
MetricsMiddlewareWithoutNext(r, t) ==
  /\ alive
  /\ UNCHANGED <<routeIn, routeOut>>
  /\ pc[r] = "new"
  /\ \A q \in Requests : q < r => pc[q] # "new"
  /\ pc' = [pc EXCEPT ![r] = "handling"]
  /\ target' = [target EXCEPT ![r] = t]
  /\ start' = [start EXCEPT ![r] = clock]
  /\ listeners' = [listeners EXCEPT ![r] = @ + 1]
  /\ reqRoute' = [reqRoute EXCEPT ![r] = Targets[t].routePath]
  /\ UNCHANGED <<nextCalls, callbackRuns, statusCode, contentType, body,
                 httpRequestDuration, httpRequestsTotal, clock, uncaught,
                 alive>>

\* metricsMiddleware(req, res, next), lines 38-60: capture the start time,
\* attach the completion callback, call next.  next runs the router, which
\* sets req.route when a route matches the request.
MetricsMiddleware(r, t) ==
  /\ alive
  /\ UNCHANGED <<routeIn, routeOut>>
  /\ pc[r] = "new"
  /\ \A q \in Requests : q < r => pc[q] # "new"
  /\ pc' = [pc EXCEPT ![r] = "handling"]
  /\ target' = [target EXCEPT ![r] = t]
  /\ start' = [start EXCEPT ![r] = clock]
  /\ listeners' = [listeners EXCEPT ![r] = @ + 1]
  /\ nextCalls' = [nextCalls EXCEPT ![r] = @ + 1]
  /\ reqRoute' = [reqRoute EXCEPT ![r] = Targets[t].routePath]
  /\ UNCHANGED <<callbackRuns, statusCode, contentType, body,
                 httpRequestDuration, httpRequestsTotal, clock, uncaught,
                 alive>>

\* A route handler of the host answers: status, headers, body, res.end.
Respond(r, code) ==
  /\ alive
  /\ UNCHANGED <<routeIn, routeOut>>
  /\ pc[r] = "handling"
  /\ Targets[target[r]].handler = "app"
  /\ pc' = [pc EXCEPT ![r] = "ended"]
  /\ statusCode' = [statusCode EXCEPT ![r] = code]
  /\ contentType' = [contentType EXCEPT ![r] = "application/json"]
  /\ body' = [body EXCEPT ![r] = AppBody]
  /\ UNCHANGED <<target, reqRoute, start, listeners, nextCalls, callbackRuns,
                 httpRequestDuration, httpRequestsTotal, clock, uncaught,
                 alive>>

\* metricsHandler, line 66 and the call of register.metrics() on line 67:
\* the handler suspends at the await.
MetricsHandlerBegin(r) ==
  /\ alive
  /\ UNCHANGED <<routeIn, routeOut>>
  /\ pc[r] = "handling"
  /\ Targets[target[r]].handler = "metrics"
  /\ pc' = [pc EXCEPT ![r] = "awaiting"]
  /\ contentType' = [contentType EXCEPT ![r] = RegisterContentType]
  /\ UNCHANGED <<target, reqRoute, start, listeners, nextCalls, callbackRuns,
                 statusCode, body, httpRequestDuration, httpRequestsTotal,
                 clock, uncaught, alive>>

\* a scrape that resets the instruments once it has rendered them
MetricsHandlerEndResetsRegistry(r) ==
  /\ alive
  /\ UNCHANGED <<routeIn, routeOut>>
  /\ pc[r] = "awaiting"
  /\ pc' = [pc EXCEPT ![r] = "ended"]
  /\ body' = [body EXCEPT ![r] =
                RegisterMetrics(httpRequestsTotal, httpRequestDuration)]
  /\ httpRequestDuration' = EmptyMap
  /\ httpRequestsTotal' = EmptyMap
  /\ UNCHANGED <<target, reqRoute, start, listeners, nextCalls, callbackRuns,
                 statusCode, contentType, clock, uncaught, alive>>

\* a scrape whose own request is counted before its body is rendered
MetricsHandlerEndCountsItself(r) ==
  /\ alive
  /\ UNCHANGED <<routeIn, routeOut>>
  /\ pc[r] = "awaiting"
  /\ pc' = [pc EXCEPT ![r] = "ended"]
  /\ httpRequestsTotal' =
       CounterInc(httpRequestsTotal,
                  Labels(Targets[target[r]].method,
                         SelectRoute(reqRoute[r], Targets[target[r]].path),
                         statusCode[r]))
  /\ httpRequestDuration' =
       HistogramObserve(httpRequestDuration,
                        Labels(Targets[target[r]].method,
                               SelectRoute(reqRoute[r],
                                           Targets[target[r]].path),
                               statusCode[r]),
                        DurationInSeconds(clock, start[r]))
  /\ body' = [body EXCEPT ![r] =
                RegisterMetrics(httpRequestsTotal', httpRequestDuration')]
  /\ UNCHANGED <<target, reqRoute, start, listeners, nextCalls, callbackRuns,
                 statusCode, contentType, clock, uncaught, alive>>

\* metricsHandler, line 67 after the await: res.end(rendered registry)
MetricsHandlerEnd(r) ==
  /\ alive
  /\ UNCHANGED <<routeIn, routeOut>>
  /\ pc[r] = "awaiting"
  /\ pc' = [pc EXCEPT ![r] = "ended"]
  /\ body' = [body EXCEPT ![r] =
                RegisterMetrics(httpRequestsTotal, httpRequestDuration)]
  /\ UNCHANGED <<target, reqRoute, start, listeners, nextCalls, callbackRuns,
                 statusCode, contentType, httpRequestDuration,
                 httpRequestsTotal, clock, uncaught, alive>>

\* The 'finish' event of the response: every attached listener runs the
\* completion callback of lines 41-57.  The callback records the request,
\* or throws on line 47 when the selected route has no replace method.
Finish(r) ==
  /\ alive
  /\ UNCHANGED <<routeIn, routeOut>>
  /\ pc[r] = "ended"
  /\ pc' = [pc EXCEPT ![r] = "finished"]
  /\ callbackRuns' = [callbackRuns EXCEPT ![r] = @ + listeners[r]]
  /\ LET route == SelectRoute(reqRoute[r], Targets[target[r]].path)
         labels == Labels(Targets[target[r]].method, route, statusCode[r])
     IN IF ReplaceThrows(route)
        THEN /\ uncaught' = uncaught \cup {r}
             /\ alive' \in BOOLEAN
             /\ UNCHANGED <<httpRequestDuration, httpRequestsTotal>>
        ELSE /\ httpRequestDuration' =
                  HistogramObserve(httpRequestDuration, labels,
                                   DurationInSeconds(clock, start[r]))
             /\ httpRequestsTotal' = CounterInc(httpRequestsTotal, labels)
             /\ UNCHANGED <<uncaught, alive>>
  /\ UNCHANGED <<target, reqRoute, start, listeners, nextCalls, statusCode,
                 contentType, body, clock>>

\* The connection closes before the response is flushed: 'close' is
\* emitted, 'finish' is not.
Abort(r) ==
  /\ alive
  /\ UNCHANGED <<routeIn, routeOut>>
  /\ pc[r] \in {"handling", "awaiting", "ended"}
  /\ pc' = [pc EXCEPT ![r] = "aborted"]
  /\ UNCHANGED <<target, reqRoute, start, listeners, nextCalls, callbackRuns,
                 statusCode, contentType, body, httpRequestDuration,
                 httpRequestsTotal, clock, uncaught, alive>>

\* Time passes.
Tick ==
  /\ alive
  /\ UNCHANGED <<routeIn, routeOut>>
  /\ clock < MaxClock
  /\ clock' = clock + 1
  /\ UNCHANGED <<pc, target, reqRoute, start, listeners, nextCalls,
                 callbackRuns, statusCode, contentType, body,
                 httpRequestDuration, httpRequestsTotal, uncaught, alive>>

Next ==
  \/ \E r \in Requests, t \in TargetIds : MetricsMiddleware(r, t)
  \/ \E r \in Requests, code \in StatusCodes : Respond(r, code)
  \/ \E r \in Requests : MetricsHandlerBegin(r)
  \/ \E r \in Requests : MetricsHandlerEnd(r)
  \/ \E r \in Requests : Finish(r)
  \/ \E r \in Requests : Abort(r)
  \/ Tick

Spec == Init /\ [][Next]_vars

\* ------------------------------------------- the normalisation on its own
\* Route strings of one to MaxSegments segments, each after a '/', and the
\* literal 'unknown'.
SegmentChoices ==
  { ObjectId1, ObjectId2, ObjectId3,
    SubSeq(ObjectId1, 1, IdLen - 1),
    ObjectId1 \o <<"a">>,
    SubSeq(ObjectId1, 1, IdLen - 1) \o <<"g">>,
    <<"i","t","e","m","s">>,
    <<":","i","d">> }

RECURSIVE RoutesOfSegments(_)
RoutesOfSegments(n) ==
  IF n = 0 THEN {<<>>}
  ELSE {p \o <<"/">> \o g : p \in RoutesOfSegments(n - 1),
                             g \in SegmentChoices}

RouteInputs ==
  {Unknown} \cup UNION {RoutesOfSegments(n) : n \in 1..MaxSegments}

NormInit ==
  /\ RecorderInit
  /\ routeIn \in RouteInputs
  /\ routeOut = Undefined

\* line 47 applied to routeIn
NormalizeStep ==
  /\ routeOut = Undefined
  /\ routeOut' = Str(NormalizeRoute(routeIn))
  /\ UNCHANGED <<routeIn, recorderVars>>

\* the label is handed to line 47 again, as the route of a later request
NormalizeAgain ==
  /\ routeOut.t = "string"
  /\ routeIn' = routeOut.v
  /\ routeOut' = Undefined
  /\ UNCHANGED recorderVars

NormNext == NormalizeStep \/ NormalizeAgain

NormSpec == NormInit /\ [][NormNext]_vars

\* ------------------------------------------------------- derived values
RECURSIVE SumOver(_, _)
SumOver(f, S) ==
  IF S = {} THEN 0
  ELSE LET x == CHOOSE y \in S : TRUE IN f[x] + SumOver(f, S \ {x})

\* the sum of the values of http_requests_total over all label sets
CounterTotal(c) == SumOver(c, DOMAIN c)

\* the number of observations of http_request_duration_seconds
HistogramTotal(h) == SumOver([l \in DOMAIN h |-> h[l].count], DOMAIN h)

\* requests whose response completed ('finish' was emitted)
Completed == {r \in Requests : pc[r] = "finished"}

\* requests that entered the middleware and whose response is still open
InFlight == {r \in Requests : pc[r] \in {"handling", "awaiting", "ended"}}

\* the route selected for a request at completion, and its label set
RouteOf(r) == SelectRoute(reqRoute[r], Targets[target[r]].path)

LabelsOf(r) == Labels(Targets[target[r]].method, RouteOf(r), statusCode[r])

\* request r's response completes in this step
Completes(r) == pc[r] = "ended" /\ pc'[r] = "finished"

\* ------------------------------------------------------------ the claims

\* C1: every completed response is recorded exactly once: the sum of the
\* counter values and the number of histogram observations both equal the
\* number of completed responses, and no callback runs twice.
C1_OneRecordPerCompletedResponse ==
  /\ CounterTotal(httpRequestsTotal) = Cardinality(Completed)
  /\ HistogramTotal(httpRequestDuration) = Cardinality(Completed)
  /\ \A r \in Requests : callbackRuns[r] <= 1

\* the route label the sentence about normalisation describes: a segment is
\* the run of characters between a '/' and the next '/' or the end
SegmentEnd(s, i) ==
  CHOOSE j \in (i + 1)..(Len(s) + 1) :
    /\ j = Len(s) + 1 \/ s[j] = "/"
    /\ \A k \in (i + 1)..(j - 1) : s[k] # "/"

IsIdSegment(s, i) ==
  /\ s[i] = "/"
  /\ SegmentEnd(s, i) - i - 1 = IdLen
  /\ \A k \in (i + 1)..(SegmentEnd(s, i) - 1) : s[k] \in HexChars

HasIdSegment(s) == \E i \in 1..Len(s) : IsIdSegment(s, i)

RECURSIVE ReplaceSegments(_, _)
ReplaceSegments(s, i) ==
  IF i > Len(s) THEN <<>>
  ELSE IF IsIdSegment(s, i)
       THEN Placeholder \o ReplaceSegments(s, SegmentEnd(s, i))
       ELSE <<s[i]>> \o ReplaceSegments(s, i + 1)

SegmentLabel(s) == IF HasIdSegment(s) THEN ReplaceSegments(s, 1) ELSE s

\* C2: the label of a recorded request has every 24-character hexadecimal
\* segment of its route replaced by ':id', and is the route itself when the
\* route has no such segment.
C2_LabelReplacesIdSegmentsOnly ==
  \A r \in Completed :
    RouteOf(r).t = "string" =>
      [method |-> Targets[target[r]].method,
       route |-> SegmentLabel(RouteOf(r).v),
       status |-> NumberToString(statusCode[r])] \in DOMAIN httpRequestsTotal

\* the route the order "matched pattern, else raw path, else 'unknown'"
\* selects, by which of them exists
RouteByExistence(r) ==
  IF reqRoute[r].t # "undefined" THEN reqRoute[r]
  ELSE IF Targets[target[r]].path.t # "undefined" THEN Targets[target[r]].path
  ELSE Str(Unknown)

\* C3: the label of a recorded request is made from the matched route
\* pattern when the router resolved one, else from the raw path, else from
\* 'unknown'.
C3_RouteChosenByExistence ==
  \A r \in Completed :
    RouteByExistence(r).t = "string" =>
      Labels(Targets[target[r]].method, RouteByExistence(r), statusCode[r])
        \in DOMAIN httpRequestsTotal

\* C4: the middleware calls next exactly once for each request in the step
\* in which it attaches the callback, and no step of the middleware or of
\* the callback changes the status code, the headers or the body of the
\* response.
C4_RecorderLeavesRequestAlone ==
  [][\A r \in Requests :
       /\ nextCalls'[r] = (IF pc'[r] = "new" THEN 0 ELSE 1)
       /\ (listeners'[r] # listeners[r] \/ callbackRuns'[r] # callbackRuns[r])
            => /\ statusCode'[r] = statusCode[r]
               /\ contentType'[r] = contentType[r]
               /\ body'[r] = body[r]]_vars

C4_Witness ==
  \E r \in Requests :
    /\ pc[r] = "finished"
    /\ callbackRuns[r] = 1
    /\ nextCalls[r] = 1
    /\ statusCode[r] = 404
    /\ body[r] = AppBody

\* C5: no failure of the completion callback leaves the callback, and the
\* process keeps serving.
C5_CallbackFailureContained ==
  /\ uncaught = {}
  /\ alive

\* C6: while two or more requests are in flight, each completion adds
\* exactly one to the total count of the counter and of the histogram.
C6_EachConcurrentCompletionCounts ==
  [][\A r \in Requests :
       (Completes(r) /\ Cardinality(InFlight) >= 2)
         => /\ CounterTotal(httpRequestsTotal') =
                 CounterTotal(httpRequestsTotal) + 1
            /\ HistogramTotal(httpRequestDuration') =
                 HistogramTotal(httpRequestDuration) + 1]_vars

\* the route labels recorded for paths of the form /bookings/<identifier>
IsPrefix(p, s) == Len(p) <= Len(s) /\ SubSeq(s, 1, Len(p)) = p

BookingRouteLabels ==
  {l.route : l \in {x \in DOMAIN httpRequestsTotal :
                      IsPrefix(Bookings \o <<"/">>, x.route)}}

\* C7: requests whose paths differ only in the identifier segment are
\* recorded under one route label, however many identifiers are sent.
C7_OneLabelPerParameterisedPath ==
  Cardinality(BookingRouteLabels) <= 1

\* a scrape body has been rendered for request r
Scraped(r) == body[r].kind = "metrics"

\* m2 shows every label set of m1 with a value at least as large
CounterLeq(m1, m2) ==
  \A l \in DOMAIN m1 : l \in DOMAIN m2 /\ m2[l] >= m1[l]

Over(r) ==
  \/ pc[r] \in {"finished", "aborted"}
  \/ pc[r] # "new" /\ ~alive

\* C9: no request that entered the middleware ends without its completion
\* callback having run exactly once.
C9_CallbackRunsOncePerRequest ==
  \A r \in Requests : Over(r) => callbackRuns[r] = 1

ExamplePath == Str(Bookings \o <<"/">> \o ObjectId1)

ExampleLabels(code) ==
  [method |-> "GET", route |-> BookingsPattern,
   status |-> (IF code = 200 THEN <<"2", "0", "0">> ELSE <<"4", "0", "4">>)]

\* the only completed responses are two GET requests to
\* /bookings/507f1f77bcf86cd799439011, one with status 200, one with 404
ExampleRun ==
  /\ Cardinality(Completed) = 2
  /\ \A r \in Completed :
       /\ Targets[target[r]].method = "GET"
       /\ Targets[target[r]].path = ExamplePath
  /\ {statusCode[r] : r \in Completed} = {200, 404}

Renders(r) == ~Scraped(r) /\ body'[r].kind = "metrics"

\* a series of the named family carries the label values of l and value v
HasSeries(b, name, l, v) ==
  \E x \in b.series :
    /\ x.name = name
    /\ x.value = v
    /\ x.labels.method = l.method
    /\ x.labels.route = l.route
    /\ x.labels.status = l.status

\* C11: a scrape is answered with the content type of the registry and a
\* body that holds a series for every label set of the counter and of the
\* histogram with its current value, and the series of the default metrics;
\* every series carries service=booking-service.
C11_ScrapeRendersRegistry ==
  [][\A r \in Requests :
       Renders(r) =>
         /\ contentType'[r] = RegisterContentType
         /\ \A x \in body'[r].series :
              /\ "service" \in DOMAIN x.labels
              /\ x.labels.service = "booking-service"
         /\ \E x \in body'[r].series : x.name = "process_start_time_seconds"
         /\ \A l \in DOMAIN httpRequestsTotal :
              HasSeries(body'[r], "http_requests_total", l,
                        httpRequestsTotal[l])
         /\ \A l \in DOMAIN httpRequestDuration :
              /\ HasSeries(body'[r], "http_request_duration_seconds_count",
                           l, httpRequestDuration[l].count)
              /\ HasSeries(body'[r], "http_request_duration_seconds_sum",
                           l, httpRequestDuration[l].sum)]_vars

C11_Witness ==
  \E r \in Requests :
    /\ Scraped(r)
    /\ contentType[r] = RegisterContentType
    /\ \E x \in body[r].series :
         x.name = "http_requests_total" /\ x.value = 1

\* request r takes a step of metricsHandler
ScrapeStep(r) ==
  \/ pc[r] = "handling" /\ pc'[r] = "awaiting"
  \/ pc[r] = "awaiting" /\ pc'[r] = "ended"

\* a scrape has begun and has not yet rendered its body
ScrapeInProgress == \E q \in Requests : pc[q] = "awaiting"

\* C12: a step of a scrape changes no instrument; a completion recorded
\* while a scrape is in progress adds one to each instrument; the values a
\* scrape returns are those the instruments hold at the step, inside the
\* scrape, in which the body is rendered.
C12_ScrapeIsSnapshot ==
  [][\A r \in Requests :
       /\ ScrapeStep(r) =>
            UNCHANGED <<httpRequestDuration, httpRequestsTotal>>
       /\ (Completes(r) /\ ScrapeInProgress /\ r \notin uncaught')
            => /\ CounterTotal(httpRequestsTotal') =
                    CounterTotal(httpRequestsTotal) + 1
               /\ HistogramTotal(httpRequestDuration') =
                    HistogramTotal(httpRequestDuration) + 1
       /\ Renders(r) =>
            /\ pc[r] = "awaiting"
            /\ body'[r].counter = httpRequestsTotal
            /\ body'[r].histogram = httpRequestDuration]_vars

C12_Witness ==
  \E r \in Requests, q \in Requests :
    /\ Scraped(r)
    /\ q > r
    /\ pc[q] = "finished"
    /\ Targets[target[q]].handler = "app"
    /\ LabelsOf(q) \in DOMAIN body[r].counter

\* the series the documented error-rate query selects: status_code =~ "5.."
SelectedByErrorRateQuery ==
  {l \in DOMAIN httpRequestsTotal :
     /\ "status_code" \in DOMAIN l
     /\ Len(l.status_code) = 3
     /\ l.status_code[1] = "5"}

\* C13: every label set of the two instruments has the keys method, route
\* and status_code, and a recorded 5xx response is selected by the
\* documented error-rate query.
C13_DocumentedLabelKeys ==
  /\ \A l \in DOMAIN httpRequestsTotal \cup DOMAIN httpRequestDuration :
       {"method", "route", "status_code"} \subseteq DOMAIN l
  /\ \A r \in Completed :
       (statusCode[r] = 500 /\ r \notin uncaught)
         => SelectedByErrorRateQuery # {}

\* the value of an entry, 0 when the label set has none
CounterValue(c, l) == IF l \in DOMAIN c THEN c[l] ELSE 0

HistogramCount(h, l) == IF l \in DOMAIN h THEN h[l].count ELSE 0

HistogramSum(h, l) == IF l \in DOMAIN h THEN h[l].sum ELSE 0

CharValue(ch) == CHOOSE d \in 0..9 : Digit(d) = ch

RECURSIVE DecimalValue(_)
\* the number a string of decimal digits denotes
DecimalValue(str) ==
  IF str = <<>> THEN 0
  ELSE 10 * DecimalValue(SubSeq(str, 1, Len(str) - 1))
         + CharValue(str[Len(str)])

\* C14: a recorded completion adds one to the counter and to the histogram
\* under one and the same label set, whose status is the decimal form of the
\* status code the response carries at completion and whose method is the
\* request method.
C14_LabelsFromCompletion ==
  [][\A r \in Requests :
       (Completes(r) /\ r \notin uncaught') =>
         \E l \in DOMAIN httpRequestsTotal' :
           /\ l.method = Targets[target[r]].method
           /\ DecimalValue(l.status) = statusCode[r]
           /\ httpRequestsTotal'[l] = CounterValue(httpRequestsTotal, l) + 1
           /\ HistogramCount(httpRequestDuration', l) =
                HistogramCount(httpRequestDuration, l) + 1]_vars

C14_Witness ==
  \E r \in Completed :
    /\ statusCode[r] = 404
    /\ r \notin uncaught
    /\ \E l \in DOMAIN httpRequestsTotal : l.status = <<"4", "0", "4">>

\* C15: the start time of a request is the clock on entry to the
\* middleware; the duration observed at completion is the clock at
\* completion minus that start time, and is not negative.
C15_DurationFromOwnStart ==
  [][\A r \in Requests :
       /\ (pc[r] = "new" /\ pc'[r] # "new") => start'[r] = clock
       /\ (Completes(r) /\ r \notin uncaught') =>
            /\ HistogramSum(httpRequestDuration', LabelsOf(r))
                 - HistogramSum(httpRequestDuration, LabelsOf(r))
                 = clock - start[r]
            /\ clock - start[r] >= 0]_vars

C15_Witness ==
  \E r \in Completed, q \in Completed :
    /\ start[r] = 0 /\ start[q] = 1
    /\ LabelsOf(r) = LabelsOf(q)
    /\ LabelsOf(r) \in DOMAIN httpRequestDuration
    /\ httpRequestDuration[LabelsOf(r)] = [count |-> 2, sum |-> 1]

\* C16: the label is the route with every segment that is a 24-character
\* hexadecimal identifier, in any letter case, replaced by ':id' and every
\* other character kept in its place.
C16_EveryIdSegmentReplaced ==
  routeOut.t = "string" => routeOut.v = ReplaceSegments(routeIn, 1)

\* C17: the two instruments hold the same label sets, and for each of them
\* the number of observations of the histogram equals the counter value.
C17_InstrumentsAgree ==
  /\ DOMAIN httpRequestDuration = DOMAIN httpRequestsTotal
  /\ \A l \in DOMAIN httpRequestsTotal :
       httpRequestDuration[l].count = httpRequestsTotal[l]

C17_Witness ==
  \E l \in DOMAIN httpRequestsTotal :
    httpRequestsTotal[l] = 2 /\ httpRequestDuration[l].count = 2

\* C18: a step that completes no response leaves both instruments as they
\* are, and a completion leaves every label set other than the one of the
\* completing request as it is.
C18_OnlyOwnLabelSetChanges ==
  [][/\ (\A r \in Requests : ~Completes(r))
          => UNCHANGED <<httpRequestDuration, httpRequestsTotal>>
     /\ \A r \in Requests :
          Completes(r) =>
            /\ \A l \in DOMAIN httpRequestsTotal' \ {LabelsOf(r)} :
                 /\ l \in DOMAIN httpRequestsTotal
                 /\ httpRequestsTotal'[l] = httpRequestsTotal[l]
            /\ \A l \in DOMAIN httpRequestDuration' \ {LabelsOf(r)} :
                 /\ l \in DOMAIN httpRequestDuration
                 /\ httpRequestDuration'[l] = httpRequestDuration[l]
            /\ \A l \in DOMAIN httpRequestsTotal \ {LabelsOf(r)} :
                 l \in DOMAIN httpRequestsTotal'
            /\ \A l \in DOMAIN httpRequestDuration \ {LabelsOf(r)} :
                 l \in DOMAIN httpRequestDuration']_vars

C18_Witness ==
  /\ Cardinality(DOMAIN httpRequestsTotal) = 2
  /\ InFlight = {}
  /\ \A l \in DOMAIN httpRequestsTotal :
       httpRequestsTotal[l] = 1 /\ httpRequestDuration[l].count = 1

\* the other scrape requests whose response has completed
OtherScrapesCompleted(q) ==
  {r \in Completed \ {q} : Targets[target[r]].handler = "metrics"}

\* C19: the body of a scrape shows, under the label set of the scrape
\* requests, the scrapes completed before it is rendered and not the scrape
\* it answers.
C19_ScrapeDoesNotCountItself ==
  [][\A q \in Requests :
       Renders(q) =>
         CounterValue(body'[q].counter, LabelsOf(q))
           = Cardinality(OtherScrapesCompleted(q))]_vars

C19_Witness ==
  \E q \in Requests :
    /\ Scraped(q)
    /\ pc[q] = "finished"
    /\ CounterValue(body[q].counter, LabelsOf(q)) = 1
    /\ httpRequestsTotal[LabelsOf(q)] = 2

ContainsPlaceholder(s) ==
  \E i \in 1..Len(s) :
    i + 3 <= Len(s) /\ SubSeq(s, i, i + 3) = Placeholder

\* C20: a label the normalisation returned is returned unchanged when it is
\* normalised again.
C20_NormalizeIdempotent ==
  routeOut.t = "string" => NormalizeRoute(routeOut.v) = routeOut.v

C20_Witness ==
  /\ routeOut = Str(routeIn)
  /\ ContainsPlaceholder(routeIn)
  /\ Len(routeIn) = 8

====
